---- MODULE Spec2Model ----
(***************************************************************************)
(* gproj: reconciliation of one Google Cloud project against a spec file.  *)
(* The module models the two evolutions of the reconciliation command     *)
(* (apply and the older sync), the operation poller they share            *)
(* (waitForCreate / waitForEnable) and the remote state they act on.      *)
(* Every remote call is one step; its response is an input of the step.   *)
(***************************************************************************)
EXTENDS Integers, Sequences, FiniteSets, TLC

\* ------------------------------------------------------------ constants

\* len(spec.Name) < 4 is rejected by apply
MinNameLen == 4
\* more than 20 APIs cannot be enabled in one batch
BatchLimit == 20
\* time.NewTicker(400 * time.Millisecond)
PollInterval == 400
\* context.WithTimeout(ctx, 5*time.Second)
CreateTimeout == 5000
\* e.Code == 403: the project does not exist (or is not visible)
ForbiddenCode == 403

\* ------------------------------------------------------------ bounds

\* polls of a wait that has no deadline of its own
MaxPolls == 3
\* invocations of the command, one after the other, on the same spec
MaxRuns == 2

\* durations (ms) a blocking fetch of the operation can take
FetchDurations == {0, 2000}

NoDeadline == -1

\* ------------------------------------------------------------ strings

\* API names are sequences of characters, so that strings.Contains and the
\* concatenation of the suffix are computed and not assumed
Suffix == <<".", "g", "o", "o", "g", "l", "e", "a", "p", "i", "s", ".", "c", "o", "m">>

CloudBilling == <<"c", "l", "o", "u", "d", "b", "i", "l", "l", "i", "n", "g">> \o Suffix

Contains(s, ch) == \E i \in 1..Len(s) : s[i] = ch

\* mutant: the name is used as written
NormalizeAPI_AsWritten(requestedAPI) == requestedAPI

\* requestedAPI + ".googleapis.com" unless the name holds a "."
NormalizeAPI(requestedAPI) ==
  IF ~Contains(requestedAPI, ".") THEN requestedAPI \o Suffix ELSE requestedAPI

Digits == <<"0", "1", "2", "3", "4", "5", "6", "7", "8", "9">>

\* the i-th of a family of short service names, "s00", "s01", ...
ShortName(i) == <<"s", Digits[(i \div 10) + 1], Digits[(i % 10) + 1]>>

ManyAPIs(n) == [i \in 1..n |-> ShortName(i)]

RunAPI == <<"r", "u", "n">>
SqlAPI == <<"s", "q", "l">> \o Suffix
\* a name the service catalog does not hold
NopeAPI == <<"n", "o", "p", "e">>

\* the services the activation service lists for a project
Catalog ==
  {RunAPI \o Suffix, SqlAPI, CloudBilling}
    \cup {ShortName(i) \o Suffix : i \in 1..(BatchLimit + 1)}

\* ------------------------------------------------------------ inputs

\* a valid name and a name that is too short
Names == {"abcd", "abc"}

\* short lists of requested APIs
APILists == { <<>>, <<RunAPI, SqlAPI>>, <<NopeAPI, RunAPI>> }

\* lists at and beyond the batch limit
LongAPILists == { ManyAPIs(BatchLimit), ManyAPIs(BatchLimit + 1) }

AcctA == "billingAccounts/A"
AcctB == "billingAccounts/B"

BillingRefs == {"", "enable", AcctA}

NoLabels == [k \in {} |-> ""]

\* the labels of the spec file: one of its keys is the key of apply's marker
LabelMaps == {[k \in {"env", "managed-by"} |-> "x"]}

\* the spec files: every short list with every billing reference, the long
\* lists with an explicit account, and one spec with a name that is too short
SpecFiles ==
  [Name : {"abcd"}, ID : {"proj-id"}, Labels : LabelMaps, APIs : APILists, Billing : BillingRefs]
    \cup [Name : {"abcd"}, ID : {"proj-id"}, Labels : LabelMaps, APIs : LongAPILists,
          Billing : {AcctA}]
    \cup [Name : {"abc"}, ID : {"proj-id"}, Labels : LabelMaps, APIs : {<<RunAPI, SqlAPI>>},
          Billing : {AcctA}]

\* the billing accounts the caller can see
AccountLists ==
  { <<>>,
    <<[Name |-> AcctB, Open |-> FALSE], [Name |-> AcctA, Open |-> TRUE]>>,
    <<[Name |-> AcctA, Open |-> TRUE], [Name |-> AcctB, Open |-> TRUE]>> }

\* an operation handle as a call or a fetch returns it
OpHandles == [Done : BOOLEAN, Error : BOOLEAN]

NoOp == [Done |-> FALSE, Error |-> FALSE]

NoProject == [Exists |-> FALSE, Name |-> "", Labels |-> NoLabels]

VARIABLES
  cmd,          \* "apply" or "sync": the subcommand main dispatches to
  spec,         \* the decoded spec file
  project,      \* remote: the project with the spec's ID
  creating,     \* remote: the project record of an accepted, not yet completed create
  billing,      \* remote: the project's billing link [Account, Enabled]
  accounts,     \* remote: the billing accounts
  enabled,      \* remote: the services enabled on the project
  pc,           \* the position of the run
  run,          \* the number of the run
  prevResult,   \* the result of the previous run
  prevCmd,      \* the subcommand of the previous run
  result,       \* "none" while running, "ok", or the error the run returned
  errArg,       \* what the error carries
  calls,        \* the remote calls of this run, in order (fetches of an operation apart)
  getErr,       \* the code of the error of the run's first Projects.Get, 0 for none
  created,      \* the run went through the creation path
  account,      \* the resolved billing account
  apis,         \* sync: the listing of services, name -> enabled
  toEnable,     \* the enable-list
  op,           \* the operation handle the poller was given
  wait,         \* "none", "entry", "loop", "returned": the position in the poller
  waitResult,   \* what the poller returned
  observed,     \* the fetches of the poller, in order
  clock,        \* ms since the wait began
  lastTick,     \* when the ticker last fired
  deadline,     \* the deadline of the wait's context, or NoDeadline
  pages,        \* remote: the pages in which the activation service lists its catalog
  dirOk,        \* local: the cache directory of the project can be created
  cacheFile,    \* local: available-apis.json in the cache directory
  entries,      \* available: the entries availableAPIs returned
  prevEntries   \* the entries the previous run was returned

vars ==
  <<cmd, spec, project, creating, billing, accounts, enabled, pc, run, prevResult, prevCmd,
    result, errArg, calls, getErr, created, account, apis, toEnable, op, wait, waitResult,
    observed, clock, lastTick, deadline, pages, dirOk, cacheFile, entries, prevEntries>>

remoteVars == <<project, creating, billing, accounts, enabled>>
waitVars == <<op, wait, waitResult, observed, clock, lastTick, deadline>>
inputVars == <<cmd, spec, run, prevResult, prevCmd>>
localVars == <<created, account, apis, toEnable>>
cacheVars == <<pages, dirOk, cacheFile, entries, prevEntries>>

\* ------------------------------------------------------------ helpers

Max(a, b) == IF a >= b THEN a ELSE b

Range(s) == {s[i] : i \in 1..Len(s)}

Call(name, arg) == [name |-> name, arg |-> arg]

\* the calls that change remote state
Mutating == {"Projects.Create", "Projects.UpdateBillingInfo", "Services.BatchEnable"}

\* return err / return nil of the command
Finish(r, a) == pc' = "done" /\ result' = r /\ errArg' = a

Issue(name, arg) == calls' = Append(calls, Call(name, arg))

\* ------------------------------------------------------------ pure parts of the code

\* len(spec.Name) < 4
InvalidName(name) == Len(name) < MinNameLen

\* mutant: any error of the get is taken for "does not exist"
NotFound_AnyError(code) == code # 0

\* mutant: a server error of the get is taken for "does not exist" as well
NotFound_OrServerError(code) == code \in {ForbiddenCode, 500}

\* e, ok := err.(*googleapi.Error); ok && e.Code == 403
NotFound(code) == code = ForbiddenCode

\* the marker label the creation path adds
Marker(c) ==
  IF c = "apply" THEN [key |-> "managed-by", value |-> "gproj"]
  ELSE [key |-> "gproj-created-at", value |-> "now"]

\* a fresh map holding the spec's labels, then the marker
CopyLabels(labels, c) ==
  [k \in (DOMAIN labels) \cup {Marker(c).key} |->
     IF k = Marker(c).key THEN Marker(c).value ELSE labels[k]]

\* mutant: the record's map is the spec's own map, so the marker is written into it
SpecLabels_Aliased(labels, c) == CopyLabels(labels, c)

\* the spec's label map once the record is built: the record's map is made
\* afresh (make(map[string]string)), so writes to it leave the spec's untouched
SpecLabels(labels, c) == labels

\* the project record the create call submits
NewProject(s, c) == [Exists |-> TRUE, Name |-> s.Name, Labels |-> CopyLabels(s.Labels, c)]

\* the billing reference that means "look the account up"
Sentinel(c) == IF c = "apply" THEN "enable" ELSE ""

\* mutant: the filter on a.Open is forgotten
OpenAccounts_Unfiltered(list) == list

\* the accounts with a.Open, in the order listed
OpenAccounts(list) == SelectSeq(list, LAMBDA a : a.Open)

\* mutant: the link is only set when the project has none
NeedsBillingUpdate_OnlyIfUnset(current, wanted) == current = ""

\* billingInfo.BillingAccountName != account
NeedsBillingUpdate(current, wanted) == current # wanted

\* mutant: Done is looked at before Error
InitialCheck_DoneFirst(h) == IF h.Done THEN "ok" ELSE IF h.Error THEN "operr" ELSE "poll"

\* the poller's look at the handle it was given
InitialCheck(h) == IF h.Error THEN "operr" ELSE IF h.Done THEN "ok" ELSE "poll"

\* mutant: a fetched handle with no error counts as done
FetchedCheck_NoErrorIsDone(h) == IF h.Error THEN "operr" ELSE "ok"

\* mutant: a fetched handle with an error counts as done
FetchedCheck_ErrorIsDone(h) == IF h.Done \/ h.Error THEN "ok" ELSE "poll"

\* the poller's look at a fetched handle
FetchedCheck(h) == IF h.Error THEN "operr" ELSE IF h.Done THEN "ok" ELSE "poll"

\* mutant: the fetch is made without the wait's context
Expired_Never(dl, t) == FALSE

\* the fetch is made with the wait's context: it fails once the deadline is reached
Expired(dl, t) == dl # NoDeadline /\ t >= dl

\* mutant: the returned link is not looked at
BillingActive_Unchecked(link) == TRUE

\* updatedBilling.BillingEnabled
BillingActive(link) == link.Enabled

\* when the ticker fires next after a receive at time t
NextFire(t) == ((t \div PollInterval) + 1) * PollInterval

\* apply: every requested API, normalized
applyToEnable(requested) == [i \in 1..Len(requested) |-> NormalizeAPI(requested[i])]

\* mutant: a requested API the listing does not hold is passed over
syncMissing_None(requested, listing) == {}

\* sync: the indexes of the requested APIs the listing does not hold
syncMissing(requested, listing) ==
  {i \in 1..Len(requested) : NormalizeAPI(requested[i]) \notin DOMAIN listing}

\* sync: the requested APIs, normalized, that the listing shows not enabled
syncToEnable(requested, listing) ==
  SelectSeq(applyToEnable(requested), LAMBDA n : n \in DOMAIN listing /\ ~listing[n])

\* mutant: the limit is off by one
OverLimit_OffByOne(list) == Len(list) >= BatchLimit

\* len(toEnable) > 20
OverLimit(list) == Len(list) > BatchLimit

\* ------------------------------------------------------------ the catalog cache (apis.go)

\* the bytes that occur in service names, in byte order
Alphabet ==
  <<".", "0", "1", "2", "3", "4", "5", "6", "7", "8", "9", "a", "b", "c", "d", "e", "f",
    "g", "h", "i", "j", "k", "l", "m", "n", "o", "p", "q", "r", "s", "t", "u", "v", "w",
    "x", "y", "z">>

Rank(ch) == CHOOSE i \in 1..Len(Alphabet) : Alphabet[i] = ch

\* apis[i].Name < apis[j].Name: Go compares strings byte by byte
RECURSIVE NameLess(_, _)
NameLess(a, b) ==
  IF a = <<>> THEN b # <<>>
  ELSE IF b = <<>> THEN FALSE
  ELSE IF Head(a) = Head(b) THEN NameLess(Tail(a), Tail(b))
  ELSE Rank(Head(a)) < Rank(Head(b))

\* strings.Index(s, "\n"), 0 for -1
RECURSIVE IndexOfNewline(_, _)
IndexOfNewline(s, i) ==
  IF i > Len(s) THEN 0 ELSE IF s[i] = "\n" THEN i ELSE IndexOfNewline(s, i + 1)

\* the first line of a string, or the whole string if it is only one line
firstLine(s) ==
  LET pos == IndexOfNewline(s, 1) IN IF pos = 0 THEN s ELSE SubSeq(s, 1, pos - 1)

\* the entry made of one listed service
NewAPI(s, on) ==
  [Name |-> s.Name, Title |-> s.Title,
   Summary |-> IF s.HasDoc THEN firstLine(s.Summary) ELSE <<>>,
   Enabled |-> s.Name \in on]

\* the callback of Pages, page after page: one entry per service, appended
RECURSIVE Collect(_, _)
Collect(pp, on) ==
  IF pp = <<>> THEN <<>>
  ELSE [i \in 1..Len(Head(pp)) |-> NewAPI(Head(pp)[i], on)] \o Collect(Tail(pp), on)

\* where an entry goes in a list sorted by name
RECURSIVE Insert(_, _)
Insert(e, sorted) ==
  IF sorted = <<>> THEN <<e>>
  ELSE IF NameLess(e.Name, Head(sorted).Name) THEN <<e>> \o sorted
  ELSE <<Head(sorted)>> \o Insert(e, Tail(sorted))

\* sort.Slice by Name; the names of a catalog are distinct, so the order the
\* unstable sort gives is the one sorted order
RECURSIVE SortByName(_)
SortByName(list) ==
  IF list = <<>> THEN <<>> ELSE Insert(Head(list), SortByName(Tail(list)))

\* what pullAvailableAPIs returns when every page arrives
Pulled(pp, on) == SortByName(Collect(pp, on))

\* a JSON string: quote, backslash and newline are escaped
RECURSIVE Escape(_)
Escape(s) ==
  IF s = <<>> THEN <<>>
  ELSE (IF Head(s) = "\n" THEN <<"\\", "n">>
        ELSE IF Head(s) \in {"\\", "\""} THEN <<"\\", Head(s)>>
        ELSE <<Head(s)>>) \o Escape(Tail(s))

\* the string a JSON string stands for
RECURSIVE Unescape(_)
Unescape(s) ==
  IF s = <<>> THEN <<>>
  ELSE IF Head(s) = "\\" /\ Len(s) >= 2
    THEN <<IF s[2] = "n" THEN "\n" ELSE s[2]>> \o Unescape(SubSeq(s, 3, Len(s)))
    ELSE <<Head(s)>> \o Unescape(Tail(s))

\* mutant: the summary is not an exported field, and so not encoded
EncodeAPI_NoSummary(e) ==
  << <<"Name", Escape(e.Name)>>, <<"Title", Escape(e.Title)>>,
     <<"Enabled", IF e.Enabled THEN "true" ELSE "false">> >>

\* json.Marshal of one *api: the exported fields under their names
EncodeAPI(e) ==
  << <<"Name", Escape(e.Name)>>, <<"Title", Escape(e.Title)>>,
     <<"Summary", Escape(e.Summary)>>,
     <<"Enabled", IF e.Enabled THEN "true" ELSE "false">> >>

\* json.Marshal(apis): a nil slice is null, any other an array of objects
Encode(list) ==
  IF list = <<>> THEN [kind |-> "null", objs |-> <<>>]
  ELSE [kind |-> "array", objs |-> [i \in 1..Len(list) |-> EncodeAPI(list[i])]]

HasKey(obj, key) == \E i \in 1..Len(obj) : obj[i][1] = key

Field(obj, key) == obj[CHOOSE i \in 1..Len(obj) : obj[i][1] = key][2]

\* json.Unmarshal into one *api: a field the object lacks keeps its zero value
DecodeAPI(obj) ==
  [Name |-> IF HasKey(obj, "Name") THEN Unescape(Field(obj, "Name")) ELSE <<>>,
   Title |-> IF HasKey(obj, "Title") THEN Unescape(Field(obj, "Title")) ELSE <<>>,
   Summary |-> IF HasKey(obj, "Summary") THEN Unescape(Field(obj, "Summary")) ELSE <<>>,
   Enabled |-> HasKey(obj, "Enabled") /\ Field(obj, "Enabled") = "true"]

\* json.Unmarshal(cached, &apis) fails on bytes that are not a JSON array or null
Decodable(doc) == doc.kind \in {"null", "array"}

\* json.Unmarshal(cached, &apis): null gives the nil slice
Decode(doc) ==
  IF doc.kind = "null" THEN <<>> ELSE [i \in 1..Len(doc.objs) |-> DecodeAPI(doc.objs[i])]

\* a file whose bytes are no JSON
Garbage == [kind |-> "garbage", objs |-> <<>>]

NoFile == [Present |-> FALSE, Doc |-> [kind |-> "null", objs |-> <<>>]]

File(doc) == [Present |-> TRUE, Doc |-> doc]

\* filepath.Join(cacheDir, "available-apis.json")
CachePath == "gproj/<projectNumber>/available-apis.json"

\* mutant: the results are stored although the cache dir could not be made
CachePlan_StoreAnyway(ok, file) ==
  IF ~file.Present THEN "store"
  ELSE IF ~Decodable(file.Doc) THEN "undecodable"
  ELSE "cached"

\* mutant: a document that does not decode is fetched anew
CachePlan_RefetchUndecodable(ok, file) ==
  IF ~ok THEN "uncached"
  ELSE IF ~file.Present \/ ~Decodable(file.Doc) THEN "store"
  ELSE "cached"

\* mutant: the catalog is pulled and stored anew at every lookup
CachePlan_AlwaysRefresh(ok, file) == IF ~ok THEN "uncached" ELSE "store"

\* the branches of availableAPIs: no cache dir, no file to read, a file that
\* does not decode, a file that does
CachePlan(ok, file) ==
  IF ~ok THEN "uncached"
  ELSE IF ~file.Present THEN "store"
  ELSE IF ~Decodable(file.Doc) THEN "undecodable"
  ELSE "cached"

Service(name, title, hasDoc, summary) ==
  [Name |-> name, Title |-> title, HasDoc |-> hasDoc, Summary |-> summary]

\* the catalog as the service lists it: not in the order of the names, over two
\* pages, with a summary of two lines, a service without documentation and a
\* title that holds a quote
TwoPages ==
  << << Service(SqlAPI, <<"S", "Q", "L">>, FALSE, <<>>),
        Service(RunAPI \o Suffix, <<"R", "\"", "u", "n", "\"">>, TRUE, <<"r", "\n", "x">>) >>,
     << Service(CloudBilling, <<"B">>, TRUE, <<"b">>) >> >>

\* a catalog of one page that holds no service
EmptyPage == << <<>> >>

ServicePages == {TwoPages, EmptyPage}

\* the cache an earlier run left, when nothing was enabled
StaleFile == File(Encode(Pulled(TwoPages, {})))

\* the spec file on which the session runs available as well as apply
SharedSpec ==
  CHOOSE s \in SpecFiles : s.Name = "abcd" /\ s.APIs = <<RunAPI, SqlAPI>> /\ s.Billing = AcctA

\* the cache directory and the file in it, as a run can find them: a directory
\* that cannot be made holds no file the run could reach
CacheStates ==
  { [dirOk |-> FALSE, file |-> NoFile], [dirOk |-> TRUE, file |-> NoFile],
    [dirOk |-> TRUE, file |-> File(Garbage)], [dirOk |-> TRUE, file |-> StaleFile] }

\* ------------------------------------------------------------ initial states

\* a project as an earlier run of the command on this spec would have created it
ManagedProject(s, c) == NewProject(s, c)

\* a project created by other means, with another name and no labels
ForeignProject == [Exists |-> TRUE, Name |-> "other name", Labels |-> NoLabels]

EnabledSets == { {}, {CloudBilling, RunAPI \o Suffix} }

\* the remote state a run can meet: no project; a project of this tool with
\* or without a billing link and enabled services; a foreign project
Init ==
  /\ cmd \in {"apply", "sync", "available"}
  /\ spec \in (IF cmd = "available" THEN {SharedSpec} ELSE SpecFiles)
  /\ IF cmd = "available"
       THEN /\ pages \in ServicePages
            /\ \E c \in CacheStates : dirOk = c.dirOk /\ cacheFile = c.file
       ELSE /\ pages = TwoPages
            /\ dirOk = TRUE
            /\ cacheFile \in (IF cmd = "apply" /\ spec = SharedSpec
                                THEN {NoFile, StaleFile} ELSE {NoFile})
  /\ entries = <<>>
  /\ prevEntries = <<>>
  /\ accounts \in (IF spec.Billing = Sentinel(cmd) THEN AccountLists
                   ELSE {<<[Name |-> AcctA, Open |-> TRUE]>>})
  /\ \/ /\ project = NoProject
        /\ billing = [Account |-> "", Enabled |-> FALSE]
        /\ enabled = {}
     \/ /\ project = ManagedProject(spec, cmd)
        /\ \E a \in {"", AcctA} : billing = [Account |-> a, Enabled |-> a # ""]
        /\ enabled \in EnabledSets
     \/ /\ project = ForeignProject
        /\ billing = [Account |-> "", Enabled |-> FALSE]
        /\ enabled = {}
  /\ creating = NoProject
  /\ pc = "start"
  /\ run = 1
  /\ prevResult = "none"
  /\ prevCmd = "none"
  /\ result = "none"
  /\ errArg = <<>>
  /\ calls = <<>>
  /\ getErr = 0
  /\ created = FALSE
  /\ account = ""
  /\ apis = <<>>
  /\ toEnable = <<>>
  /\ op = NoOp
  /\ wait = "none"
  /\ waitResult = "none"
  /\ observed = <<>>
  /\ clock = 0
  /\ lastTick = 0
  /\ deadline = NoDeadline

\* ------------------------------------------------------------ the run, up to the project

\* apply, from its start to the construction of the services: the spec is read
\* and its name validated; no remote call
applyStart ==
  /\ pc = "start" /\ cmd = "apply"
  /\ IF InvalidName(spec.Name)
       THEN Finish("ErrValidation", spec.Name)
       ELSE pc' = "getProject" /\ UNCHANGED <<result, errArg>>
  /\ UNCHANGED <<inputVars, cacheVars, getErr, remoteVars, localVars, waitVars, calls>>

\* sync, from its start to the construction of the service: the spec is read
\* and printed, nothing validates it
syncStart ==
  /\ pc = "start" /\ cmd = "sync"
  /\ pc' = "getProject"
  /\ UNCHANGED <<inputVars, cacheVars, getErr, remoteVars, localVars, waitVars, calls, result, errArg>>

\* Projects.Get(spec.ID) and the classification of its error
getProject ==
  /\ pc = "getProject"
  /\ Issue("Projects.Get", spec.ID)
  /\ \E code \in {0, ForbiddenCode, 500} :
       /\ code = 0 => (project.Exists \/ creating.Exists)
       /\ code = ForbiddenCode => ~project.Exists
       /\ getErr' = code
       /\ IF code = 0
            THEN /\ pc' = "getBilling"
                 /\ project' = IF project.Exists THEN project ELSE creating
                 /\ creating' = NoProject
                 /\ UNCHANGED <<result, errArg>>
            ELSE IF NotFound(code)
              THEN /\ pc' = "createProject"
                   /\ UNCHANGED <<project, creating, result, errArg>>
              ELSE /\ Finish("ErrProjectGet", code)
                   /\ UNCHANGED <<project, creating>>
  /\ UNCHANGED <<inputVars, cacheVars, billing, accounts, enabled, localVars, waitVars>>

\* the project record is built and Projects.Create submitted; on success the
\* wait's context gets its deadline
createProject ==
  /\ pc = "createProject"
  /\ Issue("Projects.Create", NewProject(spec, cmd))
  /\ \/ /\ Finish("ErrCreateCall", <<>>)
        /\ UNCHANGED <<project, creating, created, waitVars>>
     \/ \E h \in OpHandles :
          /\ ~creating.Exists
          /\ created' = TRUE
          /\ op' = h
          /\ wait' = "entry"
          /\ waitResult' = "none"
          /\ observed' = <<>>
          /\ clock' = 0
          /\ lastTick' = 0
          /\ deadline' = CreateTimeout
          /\ pc' = "waitCreate"
          /\ IF h.Error
               THEN UNCHANGED <<project, creating>>
               ELSE IF h.Done
                 THEN project' = NewProject(spec, cmd) /\ UNCHANGED creating
                 ELSE creating' = NewProject(spec, cmd) /\ UNCHANGED project
          /\ UNCHANGED <<result, errArg>>
  /\ spec' = [spec EXCEPT !.Labels = SpecLabels(spec.Labels, cmd)]
  /\ UNCHANGED <<cmd, run, prevResult, prevCmd, cacheVars, getErr, billing, accounts, enabled, account, apis,
                 toEnable>>

\* ------------------------------------------------------------ the operation poller

\* the service ids of the operation being waited for
OpIds == IF pc = "waitBootstrap" THEN {CloudBilling} ELSE Range(toEnable)

\* what the completion of the awaited operation does to the remote state
Completed ==
  IF pc = "waitCreate"
    THEN /\ project' = creating
         /\ creating' = NoProject
         /\ UNCHANGED <<billing, accounts, enabled>>
    ELSE /\ enabled' = enabled \cup OpIds
         /\ UNCHANGED <<project, creating, billing, accounts>>

\* what the failure of the awaited operation does to the remote state
Failed ==
  /\ creating' = IF pc = "waitCreate" THEN NoProject ELSE creating
  /\ UNCHANGED <<project, billing, accounts, enabled>>

Return(r) == wait' = "returned" /\ waitResult' = r

Obs(kind, h) == [fetch |-> kind, Done |-> h.Done, Error |-> h.Error]

\* the poller before its loop: the handle it was given is looked at, and the
\* ticker is created if it is not terminal
PollerEntry ==
  /\ wait = "entry"
  /\ IF InitialCheck(op) = "poll"
       THEN wait' = "loop" /\ lastTick' = clock /\ UNCHANGED waitResult
       ELSE Return(InitialCheck(op)) /\ UNCHANGED lastTick
  /\ UNCHANGED <<inputVars, cacheVars, getErr, remoteVars, localVars, pc, result, errArg, calls,
                 op, observed, clock, deadline>>

\* mutant: after a fetch that failed the poller waits for the next tick
PollerTick_FetchErrorRetried ==
  /\ wait = "loop"
  /\ LET recv == Max(clock, NextFire(lastTick)) IN
       IF Expired(deadline, recv)
         THEN \* the context has expired: the fetch fails at once
              /\ clock' = recv
              /\ lastTick' = recv
              /\ observed' = Append(observed, Obs("deadline", NoOp))
              /\ Return("timeout")
              /\ UNCHANGED remoteVars
         ELSE \E d \in FetchDurations :
                IF Expired(deadline, recv + d)
                  THEN \* the context expires while the fetch blocks
                       /\ clock' = deadline
                       /\ lastTick' = recv
                       /\ observed' = Append(observed, Obs("deadline", NoOp))
                       /\ Return("timeout")
                       /\ UNCHANGED remoteVars
                  ELSE /\ clock' = recv + d
                       /\ lastTick' = recv
                       /\ \/ /\ observed' = Append(observed, Obs("err", NoOp))
                             /\ UNCHANGED <<wait, waitResult>>
                             /\ UNCHANGED remoteVars
                          \/ \E h \in OpHandles :
                               /\ (deadline = NoDeadline /\ Len(observed) + 1 >= MaxPolls)
                                    => (h.Done \/ h.Error)
                               /\ observed' = Append(observed, Obs("ok", h))
                               /\ IF FetchedCheck(h) = "poll"
                                    THEN UNCHANGED <<wait, waitResult>>
                                    ELSE Return(FetchedCheck(h))
                               /\ IF h.Error THEN Failed
                                  ELSE IF h.Done THEN Completed
                                  ELSE UNCHANGED remoteVars
  /\ UNCHANGED <<inputVars, cacheVars, getErr, localVars, pc, result, errArg, calls, op, deadline>>

\* one turn of the poller's loop: the tick is received, the operation fetched
\* with the wait's context and the fetched handle looked at
PollerTick ==
  /\ wait = "loop"
  /\ LET recv == Max(clock, NextFire(lastTick)) IN
       IF Expired(deadline, recv)
         THEN \* the context has expired: the fetch fails at once
              /\ clock' = recv
              /\ lastTick' = recv
              /\ observed' = Append(observed, Obs("deadline", NoOp))
              /\ Return("timeout")
              /\ UNCHANGED remoteVars
         ELSE \E d \in FetchDurations :
                IF Expired(deadline, recv + d)
                  THEN \* the context expires while the fetch blocks
                       /\ clock' = deadline
                       /\ lastTick' = recv
                       /\ observed' = Append(observed, Obs("deadline", NoOp))
                       /\ Return("timeout")
                       /\ UNCHANGED remoteVars
                  ELSE /\ clock' = recv + d
                       /\ lastTick' = recv
                       /\ \/ /\ observed' = Append(observed, Obs("err", NoOp))
                             /\ Return("fetcherr")
                             /\ UNCHANGED remoteVars
                          \/ \E h \in OpHandles :
                               /\ (deadline = NoDeadline /\ Len(observed) + 1 >= MaxPolls)
                                    => (h.Done \/ h.Error)
                               /\ observed' = Append(observed, Obs("ok", h))
                               /\ IF FetchedCheck(h) = "poll"
                                    THEN UNCHANGED <<wait, waitResult>>
                                    ELSE Return(FetchedCheck(h))
                               /\ IF h.Error THEN Failed
                                  ELSE IF h.Done THEN Completed
                                  ELSE UNCHANGED remoteVars
  /\ UNCHANGED <<inputVars, cacheVars, getErr, localVars, pc, result, errArg, calls, op, deadline>>

waitForCreate ==
  /\ pc = "waitCreate"
  /\ (PollerEntry \/ PollerTick)

waitForEnable ==
  /\ pc \in {"waitBootstrap", "waitEnable"}
  /\ (PollerEntry \/ PollerTick)

\* the poller's state once its caller has taken the result
WaitOver ==
  /\ wait' = "none"
  /\ waitResult' = "none"
  /\ observed' = <<>>
  /\ clock' = 0
  /\ lastTick' = 0
  /\ deadline' = NoDeadline
  /\ op' = NoOp

\* ------------------------------------------------------------ the creation path

\* err = waitForCreate(waitCtx, ...); if err != nil { return ... }
afterCreate ==
  /\ pc = "waitCreate" /\ wait = "returned"
  /\ IF waitResult = "ok"
       THEN pc' = "refetch" /\ UNCHANGED <<result, errArg>>
       ELSE Finish("ErrCreateWait", waitResult)
  /\ WaitOver
  /\ UNCHANGED <<inputVars, cacheVars, getErr, remoteVars, localVars, calls>>

\* the project is fetched again for the fields the server filled in
refetchProject ==
  /\ pc = "refetch"
  /\ Issue("Projects.Get", spec.ID)
  /\ \/ /\ project.Exists
        /\ pc' = IF cmd = "apply" THEN "bootstrapEnable" ELSE "getBilling"
        /\ UNCHANGED <<result, errArg>>
     \/ Finish("ErrRefetch", <<>>)
  /\ UNCHANGED <<inputVars, cacheVars, getErr, remoteVars, localVars, waitVars>>

\* the start of a wait for an enable operation, which has no deadline of its own
EnableAccepted(h, ids) ==
  /\ op' = h
  /\ wait' = "entry"
  /\ waitResult' = "none"
  /\ observed' = <<>>
  /\ clock' = 0
  /\ lastTick' = 0
  /\ deadline' = NoDeadline
  /\ enabled' = IF h.Done /\ ~h.Error THEN enabled \cup ids ELSE enabled

\* apply: BatchEnable of the billing API right after the creation
bootstrapEnable ==
  /\ pc = "bootstrapEnable"
  /\ Issue("Services.BatchEnable", <<CloudBilling>>)
  /\ \/ /\ Finish("ErrEnableCall", <<>>)
        /\ UNCHANGED <<enabled, waitVars>>
     \/ \E h \in OpHandles :
          /\ EnableAccepted(h, {CloudBilling})
          /\ pc' = "waitBootstrap"
          /\ UNCHANGED <<result, errArg>>
  /\ UNCHANGED <<inputVars, cacheVars, getErr, project, creating, billing, accounts, localVars>>

\* err = waitForEnable(ctx, ...); if err != nil { return ... }; "created"
afterBootstrap ==
  /\ pc = "waitBootstrap" /\ wait = "returned"
  /\ IF waitResult = "ok"
       THEN pc' = "getBilling" /\ UNCHANGED <<result, errArg>>
       ELSE Finish("ErrBootstrapWait", waitResult)
  /\ WaitOver
  /\ UNCHANGED <<inputVars, cacheVars, getErr, remoteVars, localVars, calls>>

\* ------------------------------------------------------------ billing

\* GetBillingInfo, then the account is the spec's unless it is the sentinel
getBilling ==
  /\ pc = "getBilling"
  /\ Issue("Projects.GetBillingInfo", <<>>)
  /\ \/ /\ Finish("ErrBillingGet", <<>>)
        /\ UNCHANGED account
     \/ /\ IF spec.Billing = Sentinel(cmd)
             THEN pc' = "listAccounts" /\ UNCHANGED account
             ELSE pc' = "updateBilling" /\ account' = spec.Billing
        /\ UNCHANGED <<result, errArg>>
  /\ UNCHANGED <<inputVars, cacheVars, getErr, remoteVars, created, apis, toEnable, waitVars>>

\* BillingAccounts.List and the choice of the only open account
listAccounts ==
  /\ pc = "listAccounts"
  /\ Issue("BillingAccounts.List", <<>>)
  /\ \/ /\ Finish("ErrListAccounts", <<>>)
        /\ UNCHANGED account
     \/ LET openAccounts == OpenAccounts(accounts) IN
          IF Len(openAccounts) = 1
            THEN /\ account' = openAccounts[1].Name
                 /\ pc' = "updateBilling"
                 /\ UNCHANGED <<result, errArg>>
            ELSE /\ Finish("ErrAmbiguous",
                           [total |-> Len(accounts), open |-> Len(openAccounts)])
                 /\ UNCHANGED account
  /\ UNCHANGED <<inputVars, cacheVars, getErr, remoteVars, created, apis, toEnable, waitVars>>

\* where the run goes after billing
AfterBilling == IF cmd = "apply" THEN "enable" ELSE "listServices"

\* UpdateBillingInfo if the link names another account, and the check that
\* the returned link reports billing enabled
updateBilling ==
  /\ pc = "updateBilling"
  /\ IF NeedsBillingUpdate(billing.Account, account)
       THEN /\ Issue("Projects.UpdateBillingInfo", account)
            /\ \/ /\ Finish("ErrBillingUpdate", <<>>)
                  /\ UNCHANGED billing
               \/ \E on \in BOOLEAN :
                    /\ account = "" => ~on
                    /\ billing' = [Account |-> account, Enabled |-> on]
                    /\ IF ~BillingActive([Account |-> account, Enabled |-> on])
                         THEN Finish("ErrBillingNotEnabled", account)
                         ELSE pc' = AfterBilling /\ UNCHANGED <<result, errArg>>
       ELSE /\ pc' = AfterBilling
            /\ UNCHANGED <<billing, calls, result, errArg>>
  /\ UNCHANGED <<inputVars, cacheVars, getErr, project, creating, accounts, enabled, localVars, waitVars>>

\* ------------------------------------------------------------ the APIs

\* sync: Services.List and the map from name to enabled
listServices ==
  /\ pc = "listServices"
  /\ Issue("Services.List", <<>>)
  /\ \/ /\ Finish("ErrListServices", <<>>)
        /\ UNCHANGED apis
     \/ /\ apis' = [n \in Catalog |-> n \in enabled]
        /\ pc' = "enable"
        /\ UNCHANGED <<result, errArg>>
  /\ UNCHANGED <<inputVars, cacheVars, getErr, remoteVars, created, account, toEnable, waitVars>>

\* mutant: the run returns once BatchEnable is accepted, without the wait
SubmitEnable_NoWait(list) ==
  IF Len(list) = 0
    THEN Finish("ok", <<>>) /\ UNCHANGED <<calls, enabled, waitVars>>
    ELSE IF OverLimit(list)
      THEN Finish("ErrBatchLimit", Len(list)) /\ UNCHANGED <<calls, enabled, waitVars>>
      ELSE /\ Issue("Services.BatchEnable", list)
           /\ \/ /\ Finish("ErrEnableCall", <<>>)
                 /\ UNCHANGED <<enabled, waitVars>>
              \/ \E h \in OpHandles :
                   /\ enabled' = IF h.Done /\ ~h.Error THEN enabled \cup Range(list) ELSE enabled
                   /\ Finish("ok", <<>>)
                   /\ UNCHANGED waitVars

\* the enable-list is not empty and within the limit: BatchEnable is called
SubmitEnable(list) ==
  IF Len(list) = 0
    THEN Finish("ok", <<>>) /\ UNCHANGED <<calls, enabled, waitVars>>
    ELSE IF OverLimit(list)
      THEN Finish("ErrBatchLimit", Len(list)) /\ UNCHANGED <<calls, enabled, waitVars>>
      ELSE /\ Issue("Services.BatchEnable", list)
           /\ \/ /\ Finish("ErrEnableCall", <<>>)
                 /\ UNCHANGED <<enabled, waitVars>>
              \/ \E h \in OpHandles :
                   /\ EnableAccepted(h, Range(list))
                   /\ pc' = "waitEnable"
                   /\ UNCHANGED <<result, errArg>>

\* apply: the enable-list is every requested API
applyEnable ==
  /\ pc = "enable" /\ cmd = "apply"
  /\ toEnable' = applyToEnable(spec.APIs)
  /\ SubmitEnable(applyToEnable(spec.APIs))
  /\ UNCHANGED <<inputVars, cacheVars, getErr, project, creating, billing, accounts, created, account, apis>>

\* sync: the enable-list is the requested APIs the listing shows not enabled;
\* a requested API the listing does not hold ends the run
syncEnable ==
  /\ pc = "enable" /\ cmd = "sync"
  /\ LET missing == syncMissing(spec.APIs, apis) IN
       IF missing # {}
         THEN /\ Finish("ErrNoSuchAPI",
                        NormalizeAPI(spec.APIs[CHOOSE i \in missing : \A j \in missing : i <= j]))
              /\ UNCHANGED <<toEnable, calls, enabled, waitVars>>
         ELSE /\ toEnable' = syncToEnable(spec.APIs, apis)
              /\ SubmitEnable(syncToEnable(spec.APIs, apis))
  /\ UNCHANGED <<inputVars, cacheVars, getErr, project, creating, billing, accounts, created, account, apis>>

\* err = waitForEnable(ctx, ...); if err != nil { return ... }; return nil
afterEnable ==
  /\ pc = "waitEnable" /\ wait = "returned"
  /\ IF waitResult = "ok"
       THEN Finish("ok", <<>>)
       ELSE Finish("ErrEnableWait", waitResult)
  /\ WaitOver
  /\ UNCHANGED <<inputVars, cacheVars, getErr, remoteVars, localVars, calls>>

\* ------------------------------------------------------------ the available command

\* available, up to the project: the spec is read and the project fetched; any
\* error of the fetch ends the command
available ==
  /\ pc = "start" /\ cmd = "available"
  /\ Issue("Projects.Get", spec.ID)
  /\ \E code \in {0, ForbiddenCode, 500} :
       /\ code = 0 => project.Exists
       /\ code = ForbiddenCode => ~project.Exists
       /\ getErr' = code
       /\ IF code = 0
            THEN pc' = "availableAPIs" /\ UNCHANGED <<result, errArg>>
            ELSE Finish("ErrNotCreated", <<>>)
  /\ UNCHANGED <<inputVars, cacheVars, remoteVars, localVars, waitVars>>

\* Services.List(...).Pages: one call per page, up to the page that fails
ListCalls(n) == [i \in 1..n |-> Call("Services.List", i)]

\* return nil, err of availableAPIs, wrapped by the command
FetchError(kind, path) ==
  /\ Finish("ErrFetchAPIs", [kind |-> kind, path |-> path])
  /\ entries' = <<>>

\* pullAvailableAPIs: k pages arrive; the catalog is returned when all did
pullAvailableAPIs(k) ==
  /\ calls' = calls \o ListCalls(IF k < Len(pages) THEN k + 1 ELSE k)
  /\ IF k < Len(pages)
       THEN FetchError("pull", "")
       ELSE Finish("ok", <<>>) /\ entries' = Pulled(pages, enabled)
  /\ UNCHANGED cacheFile

\* pullAndStoreAvailableAPIs: the catalog is pulled, encoded and written; a
\* write that fails leaves the file as it was or cut short, and is returned
pullAndStoreAvailableAPIs(k) ==
  IF k < Len(pages)
    THEN pullAvailableAPIs(k)
    ELSE /\ calls' = calls \o ListCalls(k)
         /\ \/ /\ cacheFile' = File(Encode(Pulled(pages, enabled)))
               /\ Finish("ok", <<>>)
               /\ entries' = Pulled(pages, enabled)
            \/ /\ cacheFile' \in {cacheFile, File(Garbage)}
               /\ FetchError("write", CachePath)

\* availableAPIs(ctx, project.ProjectNumber) and the printing of its entries
availableAPIs ==
  /\ pc = "availableAPIs"
  /\ LET plan == CachePlan(dirOk, cacheFile) IN
       \/ /\ plan = "uncached"
          /\ \E k \in 0..Len(pages) : pullAvailableAPIs(k)
       \/ /\ plan = "store"
          /\ \E k \in 0..Len(pages) : pullAndStoreAvailableAPIs(k)
       \/ /\ plan = "undecodable"
          /\ FetchError("decode", CachePath)
          /\ UNCHANGED <<calls, cacheFile>>
       \/ /\ plan = "cached"
          /\ entries' = Decode(cacheFile.Doc)
          /\ Finish("ok", <<>>)
          /\ UNCHANGED <<calls, cacheFile>>
  /\ UNCHANGED <<inputVars, pages, dirOk, prevEntries, getErr, remoteVars, localVars, waitVars>>

\* ------------------------------------------------------------ the next invocation

\* main is run again on the same spec file; on the shared spec file a run
\* of apply can be followed by a run of available
main ==
  /\ pc = "done" /\ run < MaxRuns
  /\ cmd' \in (IF spec = SharedSpec /\ cmd = "apply" THEN {"apply", "available"} ELSE {cmd})
  /\ run' = run + 1
  /\ prevResult' = result
  /\ prevCmd' = cmd
  /\ pc' = "start"
  /\ result' = "none"
  /\ errArg' = <<>>
  /\ calls' = <<>>
  /\ getErr' = 0
  /\ created' = FALSE
  /\ account' = ""
  /\ apis' = <<>>
  /\ toEnable' = <<>>
  /\ prevEntries' = entries
  /\ entries' = <<>>
  /\ UNCHANGED <<spec, remoteVars, waitVars, pages, dirOk, cacheFile>>

Next ==
  \/ applyStart
  \/ syncStart
  \/ getProject
  \/ createProject
  \/ waitForCreate
  \/ afterCreate
  \/ refetchProject
  \/ bootstrapEnable
  \/ waitForEnable
  \/ afterBootstrap
  \/ getBilling
  \/ listAccounts
  \/ updateBilling
  \/ listServices
  \/ applyEnable
  \/ syncEnable
  \/ afterEnable
  \/ available
  \/ availableAPIs
  \/ main

Spec == Init /\ [][Next]_vars

TypeOK ==
  /\ cmd \in {"apply", "sync", "available"}
  /\ dirOk \in BOOLEAN
  /\ pages \in ServicePages
  /\ cacheFile.Present \in BOOLEAN
  /\ pc \in {"availableAPIs", "start", "getProject", "createProject", "waitCreate", "refetch",
             "bootstrapEnable", "waitBootstrap", "getBilling", "listAccounts",
             "updateBilling", "listServices", "enable", "waitEnable", "done"}
  /\ wait \in {"none", "entry", "loop", "returned"}
  /\ enabled \subseteq Catalog \cup {NopeAPI \o Suffix}
  /\ run \in 1..MaxRuns

\* ------------------------------------------------------------ what the claims speak of

CallNames == {calls[i].name : i \in 1..Len(calls)}

\* the calls of this run with the given name
CallsOf(name) == {i \in 1..Len(calls) : calls[i].name = name}

\* the BatchEnable calls of this run other than the bootstrap of the creation path
RequestedEnables ==
  {i \in CallsOf("Services.BatchEnable") : calls[i].arg # <<CloudBilling>>}

NumOpen == Cardinality({i \in 1..Len(accounts) : accounts[i].Open})

\* the account the spec's billing reference stands for
Resolved ==
  IF spec.Billing = Sentinel(cmd)
    THEN (CHOOSE a \in Range(accounts) : a.Open).Name
    ELSE spec.Billing

\* C1: a run that follows a successful run on the same spec issues no mutating
\* remote call (no project create, no billing update, no batch-enable).
C1_SecondRunIssuesNoMutation ==
  (run > 1 /\ prevCmd = cmd /\ prevResult = "ok") => CallNames \cap Mutating = {}

\* C2: with a spec name shorter than 4 characters the run fails with a
\* validation error before any remote call is issued.
C2_ShortNameRejectedBeforeAnyCall ==
  (pc # "start" /\ Len(spec.Name) < MinNameLen)
    => (pc = "done" /\ result = "ErrValidation" /\ calls = <<>>)

\* C3: when apply returns success the project exists, its billing link names
\* the resolved account and every requested API, normalized, is enabled.
C3_ApplySuccessMeansConverged ==
  (cmd = "apply" /\ pc = "done" /\ result = "ok")
    => /\ project.Exists
       /\ spec.Billing = Sentinel(cmd) => NumOpen = 1
       /\ billing.Account = Resolved
       /\ \A i \in 1..Len(spec.APIs) :
            (IF Contains(spec.APIs[i], ".") THEN spec.APIs[i] ELSE spec.APIs[i] \o Suffix)
              \in enabled

C3_Witness ==
  /\ cmd = "apply" /\ pc = "done" /\ result = "ok"
  /\ created
  /\ spec.Billing = "enable"
  /\ "Projects.UpdateBillingInfo" \in CallNames
  /\ spec.APIs = <<RunAPI, SqlAPI>>

\* the listing of billing accounts has been answered in this run
AccountsListed ==
  /\ "BillingAccounts.List" \in CallNames
  /\ result # "ErrListAccounts"

\* C4 as stated: under auto-select with zero or several open accounts the run
\* fails with the ambiguity error and has issued no billing update and no
\* API-enable call at all.
C4_AmbiguityIssuesNoEnableAtAll ==
  (AccountsListed /\ NumOpen # 1)
    => /\ result = "ErrAmbiguous"
       /\ "Projects.UpdateBillingInfo" \notin CallNames
       /\ "Services.BatchEnable" \notin CallNames

\* C4 amended: under auto-select, one open account is the account used for the
\* billing link; with zero or several open accounts the run fails with the
\* ambiguity error carrying the open and the total counts, and has issued no
\* billing update and no batch-enable for the requested APIs (the only enable
\* call it can have issued is the bootstrap of apply's creation path).
C4_AutoSelect ==
  AccountsListed
    => /\ spec.Billing = Sentinel(cmd)
       /\ NumOpen = 1
            => /\ result # "ErrAmbiguous"
               /\ account = (CHOOSE a \in Range(accounts) : a.Open).Name
               /\ \A i \in CallsOf("Projects.UpdateBillingInfo") : calls[i].arg = account
               /\ result = "ok" => billing.Account = account
       /\ NumOpen # 1
            => /\ pc = "done"
               /\ result = "ErrAmbiguous"
               /\ errArg = [total |-> Len(accounts), open |-> NumOpen]
               /\ "Projects.UpdateBillingInfo" \notin CallNames
               /\ RequestedEnables = {}
               /\ CallsOf("Services.BatchEnable") # {} => (cmd = "apply" /\ created)

C4_Witness ==
  /\ result = "ErrAmbiguous"
  /\ errArg = [total |-> 2, open |-> 2]
  /\ created
  /\ "Services.BatchEnable" \in CallNames

\* the billing update of this run was answered, and the answer shows billing not enabled
UpdatedButInactive ==
  /\ "Projects.UpdateBillingInfo" \in CallNames
  /\ billing.Account = account
  /\ ~billing.Enabled

\* C5: a billing update that succeeds but returns billing not enabled ends the
\* run with an error of its own, not the error of a failed update call, and no
\* API-enable call follows it.
C5_InactiveBillingIsFatal ==
  /\ UpdatedButInactive
       => /\ pc = "done"
          /\ result = "ErrBillingNotEnabled"
          /\ calls[Len(calls)].name = "Projects.UpdateBillingInfo"
  /\ result = "ErrBillingNotEnabled" => UpdatedButInactive
  /\ result = "ErrBillingUpdate"
       => /\ calls[Len(calls)].name = "Projects.UpdateBillingInfo"
          /\ billing.Account # account

C5_Witness ==
  /\ result = "ErrBillingNotEnabled"
  /\ account = AcctA
  /\ billing = [Account |-> AcctA, Enabled |-> FALSE]

\* the name a requested API stands for
Qualified(name) == IF \E i \in 1..Len(name) : name[i] = "." THEN name ELSE name \o Suffix

\* C6: an enable-list of more than 20 entries is never submitted, in full or
\* in part, and ends the run with the batch-limit error; a list of 20 or fewer
\* entries never ends the run with that error.
C6_BatchLimit ==
  /\ Len(toEnable) > BatchLimit
       => /\ pc = "done"
          /\ result = "ErrBatchLimit"
          /\ errArg = Len(toEnable)
          /\ RequestedEnables = {}
  /\ result = "ErrBatchLimit" => Len(toEnable) > BatchLimit
  /\ \A i \in RequestedEnables : Len(calls[i].arg) <= BatchLimit

C6_Witness ==
  /\ result = "ErrBatchLimit"
  /\ Len(toEnable) = BatchLimit + 1
  /\ cmd = "sync"

\* C7: a requested API name without a "." is matched and submitted as
\* name + ".googleapis.com", a name with a "." unchanged; every service id of
\* a batch-enable call holds a ".".
C7_NamesNormalized ==
  /\ \A i \in CallsOf("Services.BatchEnable") :
       \A j \in 1..Len(calls[i].arg) :
         /\ Contains(calls[i].arg[j], ".")
         /\ i \in RequestedEnables
              => \E k \in 1..Len(spec.APIs) : calls[i].arg[j] = Qualified(spec.APIs[k])
  /\ \A j \in 1..Len(toEnable) :
       \E k \in 1..Len(spec.APIs) : toEnable[j] = Qualified(spec.APIs[k])
  /\ result = "ErrNoSuchAPI"
       => /\ errArg \notin DOMAIN apis
          /\ \E k \in 1..Len(spec.APIs) : errArg = Qualified(spec.APIs[k])
  /\ (cmd = "sync" /\ pc \in {"waitEnable", "done"} /\ result \in {"none", "ok"}
        /\ "Services.List" \in CallNames)
       => \A k \in 1..Len(spec.APIs) : Qualified(spec.APIs[k]) \in DOMAIN apis

C7_Witness ==
  /\ cmd = "sync"
  /\ spec.APIs = <<RunAPI, SqlAPI>>
  /\ \E i \in RequestedEnables : calls[i].arg = <<RunAPI \o Suffix, SqlAPI>>

\* the handle is terminal
Terminal(h) == h.Error \/ h.Done

\* C8: given a handle that is already terminal the poller returns without a
\* single fetch: the operation's error if the handle carries one (done or
\* not), success if it is done with no error.
C8_TerminalHandleNeedsNoFetch ==
  (wait # "none" /\ Terminal(op))
    => /\ wait \in {"entry", "returned"}
       /\ observed = <<>>
       /\ wait = "returned" => waitResult = (IF op.Error THEN "operr" ELSE "ok")

C8_Witness ==
  /\ wait = "returned"
  /\ op = [Done |-> TRUE, Error |-> TRUE]
  /\ waitResult = "operr"
  /\ observed = <<>>

\* a fetch that succeeded and shows the operation neither done nor failed
Pending(o) == o.fetch = "ok" /\ ~o.Done /\ ~o.Error

\* a fetch that succeeded and shows the operation done with no error
DoneOk(o) == o.fetch = "ok" /\ o.Done /\ ~o.Error

\* C9: when the k-th fetch is the first to show the operation done with no
\* error, the poller has made exactly k fetches, one per tick of the ticker,
\* and returns success; it returns success only if the handle it was given or
\* a handle it fetched showed the operation done with no error.
C9_PollsUntilDone ==
  /\ \A k \in 1..Len(observed) :
       /\ k < Len(observed) => Pending(observed[k])
       /\ DoneOk(observed[k])
            => (k = Len(observed) /\ wait = "returned" /\ waitResult = "ok")
  /\ wait = "loop" => \A k \in 1..Len(observed) : Pending(observed[k])
  /\ (wait = "returned" /\ waitResult = "ok")
       => \/ observed = <<>> /\ op.Done /\ ~op.Error
          \/ observed # <<>> /\ ~Terminal(op) /\ DoneOk(observed[Len(observed)])
  /\ observed # <<>> => lastTick >= Len(observed) * PollInterval

C9_Witness ==
  /\ wait = "returned"
  /\ waitResult = "ok"
  /\ Len(observed) = 3
  /\ pc = "waitEnable"

\* C10: the wait for the creation has a deadline of 5 seconds: the poller is
\* in its loop only before the deadline, a fetch at or across the deadline
\* fails and is the poller's last, the poller then returns an error, and the
\* run ends with the error of the creation wait.
C10_CreateWaitIsBounded ==
  /\ pc = "waitCreate"
       => /\ deadline = CreateTimeout
          /\ clock <= CreateTimeout + PollInterval
          /\ wait = "loop" => clock < CreateTimeout
          /\ Len(observed) <= (CreateTimeout \div PollInterval) + 1
  /\ \A k \in 1..Len(observed) :
       observed[k].fetch = "deadline"
         => /\ k = Len(observed)
            /\ pc = "waitCreate"
            /\ wait = "returned"
            /\ waitResult = "timeout"
  /\ (pc = "waitCreate" /\ wait = "returned" /\ clock >= CreateTimeout)
       => waitResult = "timeout"
  /\ result = "ErrCreateWait" => errArg \in {"timeout", "fetcherr", "operr"}

C10_Witness ==
  /\ pc = "waitCreate"
  /\ wait = "returned"
  /\ waitResult = "timeout"
  /\ Len(observed) = (CreateTimeout \div PollInterval) + 1
  /\ \A k \in 1..(Len(observed) - 1) : Pending(observed[k])

\* C11: both the creation wait and the batch-enable wait run under a
\* cancellation signal: the poller is in its loop only while a signal that can
\* end the wait is pending, and once the signal is given the next fetch fails
\* and the poller returns an error, within one polling interval.
C11_EveryWaitIsCancellable ==
  /\ wait = "loop" => (deadline # NoDeadline /\ clock < deadline)
  /\ (wait = "returned" /\ deadline # NoDeadline /\ clock >= deadline)
       => (waitResult = "timeout" /\ clock <= deadline + PollInterval)

\* the catalog was pulled whole in the step: every page was listed
PulledWhole == calls' = calls \o ListCalls(Len(pages))

\* C12: with a cache directory and no cache document, a lookup that succeeds
\* lists the catalog once and writes a document that decodes to the entries it
\* returns; a lookup that follows a successful one lists nothing and returns
\* the same entries, in the same order.
C12_CacheRoundTrip ==
  [][ (pc = "availableAPIs" /\ dirOk /\ result' = "ok")
        => /\ ~cacheFile.Present
                => (PulledWhole /\ cacheFile'.Present /\ Decode(cacheFile'.Doc) = entries')
           /\ (run > 1 /\ prevCmd = "available" /\ prevResult = "ok")
                => (calls' = calls /\ entries' = prevEntries) ]_vars

C12_Witness ==
  /\ cmd = "available" /\ prevCmd = "available" /\ run = 2 /\ pc = "done"
  /\ prevResult = "ok" /\ result = "ok"
  /\ CallsOf("Services.List") = {}
  /\ Len(entries) = 3 /\ entries = prevEntries
  /\ entries[2].Summary = <<"r">> /\ entries[2].Enabled
  /\ cacheFile = File(Encode(entries)) /\ cacheFile # StaleFile

\* C13: a cache document that does not decode makes the lookup fail with an
\* error that names the cache path; nothing is listed and the document is left
\* as it is.
C13_UndecodableCacheIsFatal ==
  [][ (pc = "availableAPIs" /\ dirOk /\ cacheFile.Present /\ ~Decodable(cacheFile.Doc))
        => /\ result' = "ErrFetchAPIs"
           /\ errArg' = [kind |-> "decode", path |-> CachePath]
           /\ calls' = calls
           /\ cacheFile' = cacheFile ]_vars

C13_Witness ==
  /\ cmd = "available" /\ pc = "done" /\ result = "ErrFetchAPIs"
  /\ errArg.kind = "decode" /\ errArg.path = CachePath
  /\ cacheFile = File(Garbage)
  /\ CallNames = {"Projects.Get"}

\* C14: when the cache directory cannot be created the lookup lists the
\* catalog, succeeds whenever every page arrives, returns the pulled entries
\* and writes no cache document.
C14_NoCacheDirMeansUncachedFetch ==
  [][ (pc = "availableAPIs" /\ ~dirOk)
        => /\ cacheFile' = cacheFile
           /\ calls' # calls
           /\ PulledWhole => (result' = "ok" \/ errArg'.kind = "pull")
           /\ result' = "ok" => (PulledWhole /\ entries' = Pulled(pages, enabled)) ]_vars

C14_Witness ==
  /\ cmd = "available" /\ ~dirOk /\ pc = "done" /\ result = "ok"
  /\ Cardinality(CallsOf("Services.List")) = 2
  /\ Len(entries) = 3 /\ entries[1].Name = CloudBilling
  /\ cacheFile = NoFile

\* C15: a lookup that pulled the whole catalog returns its entries, whether or
\* not the cache document could be written.
C15_WriteFailureIsNotFatal ==
  [][ (pc = "availableAPIs" /\ PulledWhole
         /\ ~(result' = "ErrFetchAPIs" /\ errArg'.kind = "pull"))
        => (result' = "ok" /\ entries' = Pulled(pages, enabled)) ]_vars

\* C16: when the run returns the batch-limit error it has issued no mutating
\* call: no project create, no bootstrap enable, no billing update.
C16_BatchLimitRejectsBeforeAnyMutation ==
  result = "ErrBatchLimit" => CallNames \cap Mutating = {}

\* the place of the i-th call of a run of apply in the order of the code
Stage(i) ==
  CASE calls[i].name = "Projects.Get" -> IF i = 1 THEN 1 ELSE 3
    [] calls[i].name = "Projects.Create" -> 2
    [] calls[i].name = "Services.BatchEnable" ->
         IF calls[i].arg = <<CloudBilling>> THEN 4 ELSE 8
    [] calls[i].name = "Projects.GetBillingInfo" -> 5
    [] calls[i].name = "BillingAccounts.List" -> 6
    [] calls[i].name = "Projects.UpdateBillingInfo" -> 7
    [] OTHER -> 0

\* the run has issued the create call
InCreationPath == "Projects.Create" \in CallNames

\* C17: the calls of a run of apply come in the order get, create, re-fetch,
\* bootstrap enable of exactly cloudbilling.googleapis.com, billing get, listing
\* of accounts, billing update, enable of the requested APIs, each at most once;
\* create, re-fetch and bootstrap enable only follow one another right after
\* the get and are waited for; in the creation path a call after the re-fetch
\* finds the project created, and a billing call finds the bootstrap service
\* enabled.
C17_ApplyCallOrder ==
  cmd = "apply" =>
    /\ \A i \in 1..Len(calls) : Stage(i) # 0
    /\ \A i, j \in 1..Len(calls) : i < j => Stage(i) < Stage(j)
    /\ \A i \in 1..Len(calls) : Stage(i) \in {2, 3, 4} => i = Stage(i)
    /\ \A i \in 1..Len(calls) : (InCreationPath /\ Stage(i) >= 5) => i >= 5
    /\ pc = "waitCreate" => Stage(Len(calls)) = 2
    /\ pc = "waitBootstrap" => Stage(Len(calls)) = 4
    /\ pc = "waitEnable" => Stage(Len(calls)) = 8
    /\ (InCreationPath /\ Len(calls) >= 4) => project.Exists
    /\ (InCreationPath /\ Len(calls) >= 5) => CloudBilling \in enabled

C17_Witness ==
  /\ cmd = "apply" /\ created /\ pc = "done" /\ result = "ok"
  /\ Len(calls) = 8
  /\ \A i \in 1..8 : Stage(i) = i

\* C18: a create call is issued only in a run whose first get failed with 403;
\* a run whose get succeeded issues no create; a run whose get failed with
\* another error is over with that error, the get its only call.
C18_CreateOnlyOnForbidden ==
  cmd \in {"apply", "sync"} =>
    /\ "Projects.Create" \in CallNames => getErr = ForbiddenCode
    /\ pc = "createProject" => getErr = ForbiddenCode
    /\ getErr \notin {0, ForbiddenCode}
         => (pc = "done" /\ result = "ErrProjectGet" /\ errArg = getErr /\ Len(calls) = 1)

C18_Witness ==
  /\ getErr = ForbiddenCode /\ "Projects.Create" \in CallNames
  /\ pc = "done" /\ result = "ok"

\* C19: the ids of a batch-enable call for the requested APIs are the requested
\* names, normalized, that are not enabled on the project when the call is made.
C19_MinimalDiff ==
  [][ (pc = "enable" /\ Len(calls') > Len(calls))
        => calls'[Len(calls')].arg
             = SelectSeq(applyToEnable(spec.APIs), LAMBDA n : n \notin enabled) ]_vars

\* the run is at or past the submission of the enable-list
PastEnable ==
  \/ pc = "waitEnable"
  \/ pc = "done" /\ result \in {"ok", "ErrBatchLimit", "ErrEnableWait"}
  \/ pc = "done" /\ result = "ErrEnableCall" /\ Stage(Len(calls)) # 4

\* C20: a run issues at most one batch-enable call for the requested APIs; it
\* has issued it, with the enable-list, exactly when the list is not empty and
\* within the limit; and when it returns success every id of the list is
\* enabled: the operation was seen complete.
C20_OneEnableCallWaitedFor ==
  cmd \in {"apply", "sync"} =>
    /\ Cardinality(RequestedEnables) <= 1
    /\ \A i \in RequestedEnables : calls[i].arg = toEnable /\ i = Len(calls)
    /\ PastEnable => (RequestedEnables # {} <=> (toEnable # <<>> /\ Len(toEnable) <= BatchLimit))
    /\ RequestedEnables # {} => PastEnable
    /\ (pc = "done" /\ result = "ok") => Range(toEnable) \subseteq enabled

C20_Witness ==
  /\ cmd = "sync" /\ pc = "done" /\ result = "ok"
  /\ toEnable = <<SqlAPI>>
  /\ Cardinality(RequestedEnables) = 1
  /\ SqlAPI \in enabled

\* the requested names, normalized, that the catalog does not hold
Unlisted == {n \in Range(applyToEnable(spec.APIs)) : n \notin Catalog}

\* C21: a run of sync whose spec requests an API the catalog does not hold
\* issues no batch-enable call, and once the services are listed it is over
\* with the "no such API" error that names such an API.
C21_SyncNoSuchAPI ==
  (cmd = "sync" /\ Unlisted # {}) =>
    /\ CallsOf("Services.BatchEnable") = {}
    /\ (apis # <<>> /\ pc # "enable")
         => (pc = "done" /\ result = "ErrNoSuchAPI" /\ errArg \in Unlisted)

C21_Witness ==
  /\ cmd = "sync" /\ pc = "done" /\ result = "ErrNoSuchAPI"
  /\ spec.APIs = <<NopeAPI, RunAPI>>
  /\ errArg = NopeAPI \o Suffix
  /\ apis # <<>> /\ ~apis[RunAPI \o Suffix]
  /\ "Services.List" \in CallNames

\* the results that are the error of a remote call, and the call that failed
CallErrors ==
  [ErrProjectGet |-> "Projects.Get", ErrCreateCall |-> "Projects.Create",
   ErrRefetch |-> "Projects.Get", ErrEnableCall |-> "Services.BatchEnable",
   ErrBillingGet |-> "Projects.GetBillingInfo", ErrListAccounts |-> "BillingAccounts.List",
   ErrBillingUpdate |-> "Projects.UpdateBillingInfo", ErrListServices |-> "Services.List"]

\* the results that are the error of a wait, and the call whose operation was awaited
WaitErrors ==
  [ErrCreateWait |-> "Projects.Create", ErrBootstrapWait |-> "Services.BatchEnable",
   ErrEnableWait |-> "Services.BatchEnable"]

\* what holds of the calls of a run of apply or sync in every state
AbortedAtTheFailedCall ==
  cmd \in {"apply", "sync"} =>
    /\ Cardinality(CallsOf("Projects.Create")) <= 1
    /\ Cardinality(CallsOf("Projects.UpdateBillingInfo")) <= 1
    /\ Cardinality(CallsOf("Services.BatchEnable") \ RequestedEnables) <= 1
    /\ Cardinality(RequestedEnables) <= 1
    /\ result \in DOMAIN CallErrors
         => (pc = "done" /\ calls[Len(calls)].name = CallErrors[result])
    /\ result \in DOMAIN WaitErrors
         => (pc = "done" /\ calls[Len(calls)].name = WaitErrors[result])
    /\ getErr \notin {0, ForbiddenCode} => (pc = "done" /\ result = "ErrProjectGet")
    /\ (getErr = ForbiddenCode /\ pc = "done") => Len(calls) >= 2

\* what holds of every step of a run of apply or sync
AbortsWithoutFurtherCall ==
  cmd \in {"apply", "sync"} =>
    /\ (wait = "returned" /\ waitResult # "ok")
         => (pc' = "done" /\ result' \in DOMAIN WaitErrors /\ calls' = calls)
    /\ (result = "none" /\ result' \notin {"none", "ok"})
         => (pc' = "done" /\ Len(calls') <= Len(calls) + 1)
    /\ pc = "done" => (calls' = <<>> /\ run' = run + 1)

\* C22: a run ends with an error at the first remote call or wait that fails,
\* the failed call being its last; a wait that returned an error is followed by
\* the return of the run and by no call; create, bootstrap enable, billing
\* update and batch-enable are each issued at most once in a run; only the 403
\* of the first get lets a run go on after an error.
C22_AbortOnErrorNoRetry == []AbortedAtTheFailedCall /\ [][AbortsWithoutFurtherCall]_vars

C22_Witness ==
  /\ cmd = "apply" /\ pc = "done" /\ result = "ErrBillingUpdate"
  /\ getErr = ForbiddenCode
  /\ Len(calls) = 6
  /\ calls[6].name = "Projects.UpdateBillingInfo"
  /\ Cardinality(CallsOf("Services.BatchEnable")) = 1

\* C23: a fetch of the operation that fails is the poller's last: the poller
\* has returned the error of the fetch; the poller is in its loop only after
\* fetches that succeeded and showed the operation neither done nor failed.
C23_FetchErrorIsFatal ==
  /\ \A k \in 1..Len(observed) :
       observed[k].fetch = "err"
         => (k = Len(observed) /\ wait = "returned" /\ waitResult = "fetcherr")
  /\ waitResult = "fetcherr"
       => (wait = "returned" /\ observed # <<>> /\ observed[Len(observed)].fetch = "err")
  /\ (wait = "loop" /\ observed # <<>>) => Pending(observed[Len(observed)])

C23_Witness ==
  /\ pc = "waitCreate" /\ wait = "returned" /\ waitResult = "fetcherr"
  /\ Len(observed) = 2
  /\ Pending(observed[1]) /\ observed[2].fetch = "err"
  /\ creating.Exists

\* the results of a run of apply that created the project and ended before the
\* bootstrap service was seen enabled
AbortedInCreationPath == {"ErrCreateWait", "ErrRefetch", "ErrBootstrapWait"}

\* C24: a run of apply that follows a run aborted in the creation path, finds
\* the project and returns success has created nothing and ends in the state
\* an uninterrupted run ends in: the billing link names the resolved account,
\* the requested APIs are enabled, and so is the bootstrap service.
C24_RerunCompletesTheAbortedRun ==
  (cmd = "apply" /\ run > 1 /\ prevResult \in AbortedInCreationPath
     /\ getErr = 0 /\ pc = "done" /\ result = "ok")
    => /\ "Projects.Create" \notin CallNames
       /\ project.Exists
       /\ billing.Account = Resolved
       /\ Range(applyToEnable(spec.APIs)) \subseteq enabled
       /\ CloudBilling \in enabled

\* the labels of the project record of every create call of the run: the keys
\* of the spec and the marker's key, the marker's value under the marker's key,
\* the spec's value under every other key
CreatedWithSpecLabels ==
  \A i \in CallsOf("Projects.Create") :
    LET labels == calls[i].arg.Labels IN
      /\ DOMAIN labels = (DOMAIN spec.Labels) \cup {Marker(cmd).key}
      /\ labels[Marker(cmd).key] = Marker(cmd).value
      /\ \A k \in (DOMAIN spec.Labels) \ {Marker(cmd).key} : labels[k] = spec.Labels[k]

\* C25: no step changes the spec's label map, and the record a create call
\* submits carries every label of the spec and the marker label, the marker's
\* key apart with the spec's values.
C25_SpecLabelsNeverMutated == []CreatedWithSpecLabels /\ [][spec'.Labels = spec.Labels]_vars

C25_Witness ==
  /\ cmd = "apply" /\ created /\ project.Exists
  /\ spec.Labels["managed-by"] = "x"
  /\ project.Labels["managed-by"] = "gproj"
  /\ project.Labels["env"] = "x"

\* C26: when apply returns success the project bears the spec's name and, the
\* marker's key apart, every label of the spec with the spec's value.
C26_NameAndLabelsReconciled ==
  (cmd = "apply" /\ pc = "done" /\ result = "ok")
    => /\ project.Name = spec.Name
       /\ \A k \in (DOMAIN spec.Labels) \ {Marker(cmd).key} :
            k \in DOMAIN project.Labels /\ project.Labels[k] = spec.Labels[k]

\* a cache document that decodes is in place
CacheInPlace == dirOk /\ cacheFile.Present /\ Decodable(cacheFile.Doc)

\* C27: a cache document that decodes is never written again, by a lookup or
\* by a step of apply or sync, whatever the remote state becomes; a lookup
\* returns the entries it decodes to and lists nothing.
C27_CacheIsNeverRefreshed ==
  [][ /\ CacheInPlace => cacheFile' = cacheFile
      /\ cmd \in {"apply", "sync"} => cacheFile' = cacheFile
      /\ (CacheInPlace /\ pc = "availableAPIs")
           => /\ result' = "ok"
              /\ entries' = Decode(cacheFile.Doc)
              /\ calls' = calls ]_vars

\* after an apply that enabled sql.googleapis.com a lookup still returns the
\* entry of the service as not enabled
C27_Witness ==
  /\ cmd = "available" /\ prevCmd = "apply" /\ prevResult = "ok"
  /\ pc = "done" /\ result = "ok"
  /\ cacheFile = StaleFile
  /\ entries = Decode(StaleFile.Doc)
  /\ SqlAPI \in enabled
  /\ \E i \in 1..Len(entries) : entries[i].Name = SqlAPI /\ ~entries[i].Enabled
====
